---- MODULE Spec2Model ----
(***************************************************************************)
(* A model of crates/sequencing/papyrus_consensus/run_consensus.py: the    *)
(* consensus simulation harness.  It launches num_validators papyrus_node  *)
(* processes, polls each one's consensus height every MONITORING_PERIOD    *)
(* seconds, stops the cluster on stagnation or when the run duration has   *)
(* passed, and guards the data root with an advisory flock.                *)
(*                                                                         *)
(* Spec       main() from its call to the termination of the harness       *)
(*            process, with the operator's interrupt and one other         *)
(*            simulation contending for the same db_dir as environment.    *)
(*            Port numbers, which no decision of main() reads, are left    *)
(*            to SpecPorts.                                                *)
(* SpecNode   one Node object driven through its methods by a caller that  *)
(*            gives up at the first error, as run_simulation does.         *)
(* SpecPorts  the module's BOOTNODE_TCP_PORT and build_all_nodes, with     *)
(*            find_free_port choosing among the ports free at the call.    *)
(* SpecLock   several simulations started on one db_dir, each from         *)
(*            acquire_lock to the end of its process.                      *)
(*                                                                         *)
(* SpecSync   scripts/p2p_syncing_test/main.py, the test that starts a     *)
(*            client and a server node, reads the client's state marker    *)
(*            after a pause and stops both: its main thread, the two       *)
(*            threads that spawn the nodes, and the operator's interrupt.  *)
(***************************************************************************)
EXTENDS Integers, Sequences, FiniteSets

VARIABLES
    pc,               \* position of the harness process in main()/run_simulation()
    cfg,              \* the arguments of main() and the db_dir found on disk
    nodes,            \* the list `nodes` of Node objects
    lock_fd,          \* main()'s lock_fd: "unset", "locked", "released"
    flock,            \* who holds the flock on db_dir/lockfile (operating system)
    disk,             \* what this run has created on disk
    now,              \* time.time()
    start_time,       \* run_simulation's start_time
    curr_time,        \* monitor_simulation's curr_time
    idx,              \* index of the running `for node in nodes` loop
    stagnated_nodes,  \* monitor_simulation's stagnated_nodes
    should_exit,      \* run_simulation's should_exit
    exc,              \* the exception in flight, "none" when there is none
    exit_status,      \* exit status of the harness process, None while it runs
    interrupted,      \* whether the operator's SIGINT has reached the process
    \* SpecNode
    obj,              \* the Node object
    feed,             \* what get_height returns, call after call
    fed,              \* number of check_height calls made
    raisedAt,         \* the check_height call that raised, 0 when none did
    call,             \* the method called last
    sent,             \* signals the last stop() sent
    stop_raised,      \* whether the last stop() raised
    \* SpecPorts
    BOOTNODE_TCP_PORT,\* the module's BOOTNODE_TCP_PORT, None before line 59
    in_use,           \* ports bound by other processes
    size,             \* num_validators of the build
    built,            \* ports of the nodes built so far, in build order
    \* SpecLock
    sims,             \* per simulation: its position and its lock_fd
    holders,          \* simulations whose open lockfile holds the flock
    \* SpecSync
    sync_pc,          \* position of the script's main thread
    argc,             \* len(sys.argv)
    response,         \* what requests.get(MONITORING_METRICS_URL) brings
    threads,          \* the global list `threads`: the state of each thread
    processes,        \* the global list `processes`: the state of each child
    curl_output,      \* main()'s curl_output
    ti,               \* index of the running loop of a finally clause
    printed,          \* the last message main() printed
    sync_exc,         \* the exception in flight in the main thread
    sync_status       \* exit status of the script, None while it runs

mainVars == <<pc, cfg, nodes, lock_fd, flock, disk, now, start_time, curr_time,
              idx, stagnated_nodes, should_exit, exc, exit_status,
              interrupted>>
nodeVars == <<obj, feed, fed, raisedAt, call, sent, stop_raised>>
portVars == <<BOOTNODE_TCP_PORT, in_use, size, built>>
lockVars == <<sims, holders>>
syncVars == <<sync_pc, argc, response, threads, processes, curl_output, ti,
              printed, sync_exc, sync_status>>
vars == <<mainVars, nodeVars, portVars, lockVars, syncVars>>

----------------------------------------------------------------------------
(* Bounds of the model. *)

\* Largest cluster size tried.
MaxValidators == 3
\* Largest height a node's metrics endpoint reports.
MaxHeight == 1
\* Number of monitoring ticks after which the model lets the loop sleep no more.
MaxTicks == 3
\* Longest sequence of readings fed to one Node.
MaxLen == 4
\* Number of TCP ports of the machine.
MaxPort == 3
\* Number of simulations started on one db_dir.
MaxSims == 3

(* Program constants. *)

\* Python's None, for a height, a timestamp, a duration or an exit status.
None == -1
MONITORING_PERIOD == 10

\* The run durations and stagnation thresholds tried (seconds).
Durations == {None, 20}
StagnationThresholds == {5, 10}
\* What get_height may return: None or a height.
Readings == {None} \cup (0 .. MaxHeight)
\* Names of the sub-directories a supplied db_dir may hold: i stands for data{i}.
DirNames == 0 .. MaxValidators

----------------------------------------------------------------------------
(* Node *)

\* Node.__init__: no process, no height.
NodeInit(validator_id) ==
    [validator_id |-> validator_id, process |-> "None",
     height |-> None, timestamp |-> None]

\* Node.start: Popen succeeded; the handle refers to a running child.
NodeStart(node) == [node EXCEPT !.process = "running"]

\* Node.stop.  `os_ok` is whether os.getpgid/os.killpg succeed.  The handle
\* self.process is never reset: after wait() it refers to a reaped child, and
\* os.getpgid of its pid fails (or, the pid reused, names a foreign group).
\* Result: the node, the number of signals sent, whether an error is raised.
NodeStop(node, os_ok) ==
    CASE node.process = "None" ->
            [node |-> node, signals |-> 0, raised |-> FALSE]
      [] node.process = "running" /\ os_ok ->
            [node |-> [node EXCEPT !.process = "reaped"], signals |-> 1,
             raised |-> FALSE]
      [] node.process = "running" /\ ~os_ok ->
            [node |-> node, signals |-> 0, raised |-> TRUE]
      [] node.process = "reaped" /\ os_ok ->
            [node |-> node, signals |-> 1, raised |-> FALSE]
      [] node.process = "reaped" /\ ~os_ok ->
            [node |-> node, signals |-> 0, raised |-> TRUE]

\* check_height without its assertion: every changed reading is recorded.
CheckHeightUnchecked(node, height, t) ==
    IF node.height # height
    THEN [node |-> [node EXCEPT !.height = height, !.timestamp = t],
          raised |-> FALSE]
    ELSE [node |-> node, raised |-> FALSE]

\* check_height stamping every reading it accepts, changed or not.
CheckHeightAlwaysStamp(node, height, t) ==
    IF node.height # None /\ height # None /\ height < node.height
    THEN [node |-> node, raised |-> TRUE]
    ELSE [node |-> [node EXCEPT !.height = height, !.timestamp = t],
          raised |-> FALSE]

\* Node.check_height with get_height() = height at time t.
\* Result: the node and whether the assertion failed.
CheckHeight(node, height, t) ==
    IF node.height # height
    THEN IF node.height # None /\ height # None /\ ~(height > node.height)
         THEN [node |-> node, raised |-> TRUE]
         ELSE [node |-> [node EXCEPT !.height = height, !.timestamp = t],
               raised |-> FALSE]
    ELSE [node |-> node, raised |-> FALSE]

----------------------------------------------------------------------------
(* build_all_nodes *)

\* The validator ids appended in ascending order, the proposer first.
BuildOrderAscending(num_validators) ==
    [k \in 1 .. num_validators |-> k - 1]

\* The validator ids in the order build_all_nodes appends them.
BuildOrder(num_validators) ==
    <<1>> \o [k \in 1 .. (num_validators - 2) |-> k + 1] \o <<0>>

build_all_nodes(num_validators) ==
    [k \in 1 .. num_validators |-> NodeInit(BuildOrder(num_validators)[k])]

----------------------------------------------------------------------------
(* monitor_simulation *)

\* line 65: the run has lasted longer than `duration`.
DurationPassed(duration, curr, start) ==
    duration # None /\ duration < (curr - start)

\* Stagnation judged on the time alone, whether a height is known or not.
StagnatedIgnoringNone(height, last_update, curr, stagnation_timeout) ==
    (curr - last_update) > stagnation_timeout

\* Stagnation judged on the time of the last recorded change, a change to
\* None included.
StagnatedSinceRecorded(height, last_update, curr, stagnation_timeout) ==
    last_update # None /\ (curr - last_update) > stagnation_timeout

\* line 71: the node's height is known and has not changed for too long.
Stagnated(height, last_update, curr, stagnation_timeout) ==
    height # None /\ (curr - last_update) > stagnation_timeout

----------------------------------------------------------------------------
(* acquire_lock *)

\* fcntl.flock by `who` when the open files of `held_by` hold the lock: "ok";
\* when someone else holds it, "IOError" with LOCK_NB and "wait" without.
Flock(held_by, who, LOCK_NB) ==
    IF held_by \subseteq {who} THEN "ok"
    ELSE IF LOCK_NB THEN "IOError" ELSE "wait"

\* acquire_lock going on with the descriptor although flock failed.
acquire_lock_unchecked(held_by, who) ==
    [lock_fd |-> "locked", flock |-> held_by \cup {who}, exit |-> None,
     waits |-> FALSE]

\* acquire_lock, which asks for LOCK_EX | LOCK_NB: the lock_fd returned, or
\* exit(1) on IOError.
acquire_lock(held_by, who) ==
    LET got == Flock(held_by, who, TRUE) IN
    CASE got = "ok" ->
            [lock_fd |-> "locked", flock |-> held_by \cup {who},
             exit |-> None, waits |-> FALSE]
      [] got = "IOError" ->
            [lock_fd |-> "unset", flock |-> held_by, exit |-> 1,
             waits |-> FALSE]
      [] got = "wait" ->
            [lock_fd |-> "unset", flock |-> held_by, exit |-> None,
             waits |-> TRUE]

----------------------------------------------------------------------------
(* scripts/p2p_syncing_test/main.py: values and functions *)

\* Python values by type: None, an int, and the text of a metrics page, of
\* which only the papyrus_state_marker line matters: absent (None), a value
\* int() refuses (NotAnInt), or an integer.
NotAnInt == -2
PyNone == [type |-> "NoneType", value |-> 0]
PyInt(n) == [type |-> "int", value |-> n]
PyStr(marker) == [type |-> "str", value |-> marker]

\* The state markers a metrics page may show, around the 10 of line 93.
Markers == {0, 9, 10, 11}

\* What requests.get and raise_for_status bring: a RequestException, or the
\* text of the page.
Responses ==
    [kind : {"RequestException"}, marker : {None}]
        \cup [kind : {"text"}, marker : {None, NotAnInt} \cup Markers]

\* lines 54-61 on a Python value: only a str has .strip(); the first line
\* that starts with papyrus_state_marker is converted by int().
\* Result: the exception raised ("none" when none) and the value returned.
extract_state_marker_from_monitoring_output(curl_output_arg) ==
    IF curl_output_arg.type # "str"
    THEN [raised |-> "AttributeError", value |-> PyNone]
    ELSE CASE curl_output_arg.value = None ->
                [raised |-> "none", value |-> PyNone]
           [] curl_output_arg.value = NotAnInt ->
                [raised |-> "ValueError", value |-> PyNone]
           [] OTHER ->
                [raised |-> "none", value |-> PyInt(curl_output_arg.value)]

\* lines 24-33: only a RequestException is caught here.
run_curl_and_extract_state_marker(resp) ==
    IF resp.kind = "RequestException"
    THEN [raised |-> "none", value |-> PyNone]
    ELSE extract_state_marker_from_monitoring_output(PyStr(resp.marker))

\* The try block's lines 86-96 once curl_output is known.
\* Result: the exception raised and the message printed before it.
CheckMarker(output) ==
    IF output # PyNone
    THEN LET e == extract_state_marker_from_monitoring_output(output) IN
         CASE e.raised # "none" ->
                [raised |-> e.raised, printed |-> "none"]
           [] e.value = PyNone ->
                [raised |-> "AssertionError", printed |-> "papyrus_state_marker"]
           [] ~(e.value.value >= 10) ->
                [raised |-> "AssertionError", printed |-> "papyrus_state_marker"]
           [] OTHER ->
                [raised |-> "none", printed |-> "papyrus_state_marker"]
    ELSE [raised |-> "none", printed |-> "Failed to fetch monitoring metrics."]

\* Thread._stop() (line 102), a private method of CPython: absent from the
\* builds that dropped it; where present it asserts that the thread is not
\* alive.  Result: the exception raised.
ThreadStop(thread, has_stop) ==
    CASE ~has_stop -> "AttributeError"
      [] thread = "started" -> "AssertionError"
      [] OTHER -> "none"

----------------------------------------------------------------------------
(* main *)

\* The configurations main() is called with.
Configs ==
    [num_validators : 1 .. MaxValidators,
     db_given : BOOLEAN,
     db_exists : BOOLEAN,
     db_subdirs : SUBSET DirNames,
     duration : Durations,
     stagnation_threshold : StagnationThresholds]

MainInit ==
    /\ pc = "main"
    /\ cfg \in {c \in Configs :
                  /\ (~c.db_given => ~c.db_exists)
                  /\ (~c.db_exists => c.db_subdirs = {})}
    /\ nodes = <<>>
    /\ lock_fd = "unset"
    /\ flock \in {{}, {"other"}}
    /\ (~cfg.db_given => flock = {})
    /\ disk = {}
    /\ now = 0
    /\ start_time = None
    /\ curr_time = None
    /\ idx = 0
    /\ stagnated_nodes = {}
    /\ should_exit = FALSE
    /\ exc = "none"
    /\ exit_status = None
    /\ interrupted = FALSE

\* The parts of the state a specification does not use stay as they are here.
MainIdle ==
    /\ pc = "idle"
    /\ cfg = [num_validators |-> 2, db_given |-> FALSE, db_exists |-> FALSE,
              db_subdirs |-> {}, duration |-> None,
              stagnation_threshold |-> 10]
    /\ nodes = <<>>
    /\ lock_fd = "unset"
    /\ flock = {}
    /\ disk = {}
    /\ now = 0
    /\ start_time = None
    /\ curr_time = None
    /\ idx = 0
    /\ stagnated_nodes = {}
    /\ should_exit = FALSE
    /\ exc = "none"
    /\ exit_status = None
    /\ interrupted = FALSE

NodeIdle ==
    /\ obj = NodeInit(0)
    /\ feed = <<>>
    /\ fed = 0
    /\ raisedAt = 0
    /\ call = "init"
    /\ sent = 0
    /\ stop_raised = FALSE

PortsIdle ==
    /\ BOOTNODE_TCP_PORT = None
    /\ in_use = {}
    /\ size = 0
    /\ built = <<>>

LockIdle ==
    /\ sims = <<>>
    /\ holders = {}

SyncIdle ==
    /\ sync_pc = "idle"
    /\ argc = 2
    /\ response = [kind |-> "RequestException", marker |-> None]
    /\ threads = <<>>
    /\ processes = <<>>
    /\ curl_output = PyNone
    /\ ti = 0
    /\ printed = "none"
    /\ sync_exc = "none"
    /\ sync_status = None

Init == MainInit /\ NodeIdle /\ PortsIdle /\ LockIdle /\ SyncIdle

HarnessOnly == UNCHANGED <<nodeVars, portVars, lockVars, syncVars>>

\* The harness process ends: its memory is gone (the Node objects keep only
\* what the operating system keeps, the children), its descriptors are closed,
\* so the operating system drops a flock it still held.  Children are in
\* sessions of their own (os.setsid) and keep running.
Orphan(node) == [node EXCEPT !.height = None, !.timestamp = None]

Terminate(status, error) ==
    /\ pc' = "exited"
    /\ exit_status' = status
    /\ exc' = error
    /\ flock' = flock \ {"self"}
    /\ nodes' = [k \in 1 .. Len(nodes) |-> Orphan(nodes[k])]
    /\ idx' = 0
    /\ start_time' = None
    /\ curr_time' = None
    /\ stagnated_nodes' = {}
    /\ should_exit' = FALSE

\* What a step that does not end the process leaves alone besides its own
\* variables.
Alive == UNCHANGED <<exc, exit_status, flock>>

\* Checks that count the validator directories without comparing their names.
ArgsOkCountOnly ==
    /\ cfg.num_validators >= 2
    /\ cfg.db_given =>
         /\ cfg.db_exists
         /\ Cardinality(cfg.db_subdirs) = cfg.num_validators

\* lines 161-184: the checks of the arguments, and the directories.
ArgsOk ==
    /\ cfg.num_validators >= 2
    /\ cfg.db_given =>
         /\ cfg.db_exists
         /\ Cardinality(cfg.db_subdirs) = cfg.num_validators
         /\ cfg.db_subdirs = 0 .. (cfg.num_validators - 1)

Validate ==
    /\ pc = "main"
    /\ IF ArgsOk
       THEN /\ pc' = "acquire_lock"
            /\ disk' = IF cfg.db_given THEN {"logs_dir"}
                                       ELSE {"logs_dir", "data_dirs"}
            /\ Alive
            /\ UNCHANGED <<nodes, idx, start_time, curr_time,
                           stagnated_nodes, should_exit>>
       ELSE /\ Terminate(1, "AssertionError")
            /\ disk' = IF cfg.num_validators >= 2 THEN {"logs_dir"} ELSE {}
    /\ UNCHANGED <<cfg, lock_fd, now>>
    /\ UNCHANGED interrupted
    /\ HarnessOnly

\* line 187 and acquire_lock.  open(lock_file, "w") creates the file unless
\* it is there, as it is when another simulation holds the lock on it.
AcquireLock ==
    /\ pc = "acquire_lock"
    /\ LET r == acquire_lock(flock, "self") IN
       /\ disk' = IF flock = {} THEN disk \cup {"lockfile"} ELSE disk
       /\ lock_fd' = r.lock_fd
       /\ IF r.exit = None
          THEN /\ flock' = r.flock
               /\ pc' = IF r.waits THEN "blocked" ELSE "cargo_build"
               /\ UNCHANGED <<exc, exit_status, nodes, idx, start_time,
                              curr_time, stagnated_nodes, should_exit>>
          ELSE Terminate(r.exit, "SystemExit")
    /\ UNCHANGED <<cfg, now>>
    /\ UNCHANGED interrupted
    /\ HarnessOnly

\* line 190: subprocess.run(..., check=True).
CargoBuild ==
    /\ pc = "cargo_build"
    /\ \E compiled \in BOOLEAN :
         IF compiled
         THEN /\ pc' = "build_all_nodes"
              /\ Alive
              /\ UNCHANGED <<nodes, idx, start_time, curr_time,
                             stagnated_nodes, should_exit>>
         ELSE Terminate(1, "CalledProcessError")
    /\ UNCHANGED <<cfg, lock_fd, disk, now>>
    /\ UNCHANGED interrupted
    /\ HarnessOnly

\* line 194.
BuildAllNodes ==
    /\ pc = "build_all_nodes"
    /\ nodes' = build_all_nodes(cfg.num_validators)
    /\ idx' = 1
    /\ pc' = "start"
    /\ Alive
    /\ UNCHANGED <<cfg, lock_fd, disk, now, start_time, curr_time,
                   stagnated_nodes, should_exit>>
    /\ UNCHANGED interrupted
    /\ HarnessOnly

\* lines 80-81: one iteration of the start loop; Popen may fail.
StartNode ==
    /\ pc = "start"
    /\ idx <= Len(nodes)
    /\ \E spawned \in BOOLEAN :
         IF spawned
         THEN /\ nodes' = [nodes EXCEPT ![idx] = NodeStart(nodes[idx])]
              /\ idx' = idx + 1
              /\ Alive
              /\ UNCHANGED <<pc, start_time, curr_time, stagnated_nodes,
                             should_exit>>
         ELSE Terminate(1, "OSError: Popen")
    /\ UNCHANGED <<cfg, lock_fd, disk, now>>
    /\ UNCHANGED interrupted
    /\ HarnessOnly

\* line 83, entering the try block.
EnterLoop ==
    /\ pc = "start"
    /\ idx > Len(nodes)
    /\ start_time' = now
    /\ idx' = 0
    /\ pc' = "sleep"
    /\ Alive
    /\ UNCHANGED <<cfg, nodes, lock_fd, disk, now, curr_time,
                   stagnated_nodes, should_exit>>
    /\ UNCHANGED interrupted
    /\ HarnessOnly

\* line 86: time.sleep(MONITORING_PERIOD).
Sleep ==
    /\ pc = "sleep"
    /\ now + MONITORING_PERIOD <= MaxTicks * MONITORING_PERIOD
    /\ now' = now + MONITORING_PERIOD
    /\ pc' = "monitor"
    /\ Alive
    /\ UNCHANGED <<cfg, nodes, lock_fd, disk, start_time, curr_time, idx,
                   stagnated_nodes, should_exit>>
    /\ UNCHANGED interrupted
    /\ HarnessOnly

\* lines 64-67: the head of monitor_simulation.
MonitorBegin ==
    /\ pc = "monitor"
    /\ IF DurationPassed(cfg.duration, now, start_time)
       THEN /\ should_exit' = TRUE
            /\ pc' = "check_exit"
            /\ UNCHANGED <<curr_time, stagnated_nodes, idx>>
       ELSE /\ curr_time' = now
            /\ stagnated_nodes' = {}
            /\ idx' = 1
            /\ pc' = "poll"
            /\ UNCHANGED should_exit
    /\ Alive
    /\ UNCHANGED <<cfg, nodes, lock_fd, disk, now, start_time>>
    /\ UNCHANGED interrupted
    /\ HarnessOnly

\* lines 68-72: one iteration of the polling loop.  A failed assertion leaves
\* monitor_simulation and the try block for the finally clause, the error in
\* flight.
Poll ==
    /\ pc = "poll"
    /\ idx <= Len(nodes)
    /\ \E height \in Readings :
         LET r == CheckHeight(nodes[idx], height, now) IN
         IF r.raised
         THEN /\ exc' = "AssertionError"
              /\ pc' = "finally"
              /\ idx' = 1
              /\ curr_time' = None
              /\ stagnated_nodes' = {}
              /\ UNCHANGED nodes
         ELSE /\ nodes' = [nodes EXCEPT ![idx] = r.node]
              /\ stagnated_nodes' =
                    IF Stagnated(r.node.height, r.node.timestamp, curr_time,
                                 cfg.stagnation_threshold)
                    THEN stagnated_nodes \cup {r.node.validator_id}
                    ELSE stagnated_nodes
              /\ idx' = idx + 1
              /\ UNCHANGED <<pc, exc, curr_time>>
    /\ UNCHANGED <<cfg, lock_fd, flock, disk, now, start_time, should_exit,
                   exit_status>>
    /\ UNCHANGED interrupted
    /\ HarnessOnly

\* lines 73-76 and 88: monitor_simulation returns the verdict of the tick; its
\* local variables end with it.
MonitorEnd ==
    /\ pc = "poll"
    /\ idx > Len(nodes)
    /\ should_exit' = (stagnated_nodes # {})
    /\ pc' = "check_exit"
    /\ curr_time' = None
    /\ stagnated_nodes' = {}
    /\ idx' = 0
    /\ Alive
    /\ UNCHANGED <<cfg, nodes, lock_fd, disk, now, start_time>>
    /\ UNCHANGED interrupted
    /\ HarnessOnly

\* lines 89-90.
CheckExit ==
    /\ pc = "check_exit"
    /\ IF should_exit
       THEN pc' = "finally" /\ idx' = 1
       ELSE pc' = "sleep" /\ UNCHANGED idx
    /\ Alive
    /\ UNCHANGED <<cfg, nodes, lock_fd, disk, now, start_time, curr_time,
                   stagnated_nodes, should_exit>>
    /\ UNCHANGED interrupted
    /\ HarnessOnly

\* The operator's SIGINT.  Inside the try block (lines 85-90) the
\* KeyboardInterrupt is caught at line 91 and the finally clause runs;
\* anywhere else in main() nothing catches it and the process ends.
InTry == pc \in {"sleep", "monitor", "poll", "check_exit"}

Interrupt ==
    /\ pc \in {"acquire_lock", "cargo_build", "build_all_nodes", "start",
               "sleep", "monitor", "poll", "check_exit", "finally", "release"}
    /\ IF InTry
       THEN /\ pc' = "finally"
            /\ idx' = 1
            /\ curr_time' = None
            /\ stagnated_nodes' = {}
            /\ Alive
            /\ UNCHANGED <<nodes, start_time, should_exit>>
       ELSE Terminate(130, "KeyboardInterrupt")
    /\ UNCHANGED <<cfg, lock_fd, disk, now>>
    /\ interrupted' = TRUE
    /\ HarnessOnly

\* lines 94-95: one iteration of the finally clause's loop.  An error raised
\* by stop() replaces the one in flight and leaves the loop.
StopNode ==
    /\ pc = "finally"
    /\ idx <= Len(nodes)
    /\ \E os_ok \in BOOLEAN :
         LET r == NodeStop(nodes[idx], os_ok) IN
         IF r.raised
         THEN Terminate(1, "OSError: killpg")
         ELSE /\ nodes' = [nodes EXCEPT ![idx] = r.node]
              /\ idx' = idx + 1
              /\ Alive
              /\ UNCHANGED <<pc, start_time, curr_time, stagnated_nodes,
                             should_exit>>
    /\ UNCHANGED <<cfg, lock_fd, disk, now>>
    /\ UNCHANGED interrupted
    /\ HarnessOnly

\* A finally clause that loses the error in flight: run_simulation returns
\* whatever happened in the try block.
FinallyEndSwallowing ==
    /\ pc = "finally"
    /\ idx > Len(nodes)
    /\ pc' = "release"
    /\ idx' = 0
    /\ exc' = "none"
    /\ UNCHANGED <<exit_status, flock, nodes, start_time, curr_time,
                   stagnated_nodes, should_exit>>
    /\ UNCHANGED <<cfg, lock_fd, disk, now>>
    /\ UNCHANGED interrupted
    /\ HarnessOnly

\* The end of the finally clause: an error in flight goes on to the caller,
\* whom it ends; otherwise run_simulation returns.
FinallyEnd ==
    /\ pc = "finally"
    /\ idx > Len(nodes)
    /\ IF exc # "none"
       THEN Terminate(1, exc)
       ELSE /\ pc' = "release"
            /\ idx' = 0
            /\ Alive
            /\ UNCHANGED <<nodes, start_time, curr_time, stagnated_nodes,
                           should_exit>>
    /\ UNCHANGED <<cfg, lock_fd, disk, now>>
    /\ UNCHANGED interrupted
    /\ HarnessOnly

\* lines 199-202: the lock is released and main() returns.
Release ==
    /\ pc = "release"
    /\ lock_fd' = "released"
    /\ Terminate(0, "none")
    /\ UNCHANGED <<cfg, disk, now>>
    /\ UNCHANGED interrupted
    /\ HarnessOnly

\* Another simulation on the same db_dir takes the lock, or gives it up.
OtherAcquire ==
    /\ cfg.db_given
    /\ "other" \notin flock
    /\ acquire_lock(flock, "other").exit = None
    /\ ~acquire_lock(flock, "other").waits
    /\ flock' = acquire_lock(flock, "other").flock
    /\ UNCHANGED <<pc, cfg, nodes, lock_fd, disk, now, start_time, curr_time,
                   idx, stagnated_nodes, should_exit, exc, exit_status>>
    /\ UNCHANGED interrupted
    /\ HarnessOnly

OtherRelease ==
    /\ "other" \in flock
    /\ flock' = flock \ {"other"}
    /\ UNCHANGED <<pc, cfg, nodes, lock_fd, disk, now, start_time, curr_time,
                   idx, stagnated_nodes, should_exit, exc, exit_status>>
    /\ UNCHANGED interrupted
    /\ HarnessOnly

Next ==
    \/ Validate
    \/ AcquireLock
    \/ CargoBuild
    \/ BuildAllNodes
    \/ StartNode
    \/ EnterLoop
    \/ Sleep
    \/ MonitorBegin
    \/ Poll
    \/ MonitorEnd
    \/ CheckExit
    \/ Interrupt
    \/ StopNode
    \/ FinallyEnd
    \/ Release
    \/ OtherAcquire
    \/ OtherRelease

Spec == Init /\ [][Next]_vars

----------------------------------------------------------------------------
(* SpecNode: a Node and its caller *)

\* The sequences of readings of length 1 .. MaxLen.
Feeds == UNION {[1 .. n -> Readings] : n \in 1 .. MaxLen}

NodeSpecInit ==
    /\ obj = NodeInit(0)
    /\ feed \in Feeds
    /\ fed = 0
    /\ raisedAt = 0
    /\ call = "init"
    /\ sent = 0
    /\ stop_raised = FALSE
    /\ MainIdle /\ PortsIdle /\ LockIdle /\ SyncIdle

\* The caller goes on as long as no call has raised; after a failed
\* check_height it still stops the node (the finally clause).
ApiStart ==
    /\ raisedAt = 0 /\ ~stop_raised
    /\ obj.process = "None"
    /\ obj' = NodeStart(obj)
    /\ call' = "start"
    /\ UNCHANGED <<feed, fed, raisedAt, sent, stop_raised>>
    /\ UNCHANGED <<mainVars, portVars, lockVars, syncVars>>

ApiStop ==
    /\ ~stop_raised
    /\ \E os_ok \in BOOLEAN :
         LET r == NodeStop(obj, os_ok) IN
         /\ obj' = r.node
         /\ sent' = r.signals
         /\ stop_raised' = r.raised
    /\ call' = "stop"
    /\ UNCHANGED <<feed, fed, raisedAt>>
    /\ UNCHANGED <<mainVars, portVars, lockVars, syncVars>>

\* The call number fed + 1 of check_height, made at time fed + 1.
ApiCheckHeight ==
    /\ raisedAt = 0 /\ ~stop_raised
    /\ fed < Len(feed)
    /\ LET r == CheckHeight(obj, feed[fed + 1], fed + 1) IN
       /\ obj' = r.node
       /\ raisedAt' = IF r.raised THEN fed + 1 ELSE 0
    /\ fed' = fed + 1
    /\ call' = "check_height"
    /\ UNCHANGED <<feed, sent, stop_raised>>
    /\ UNCHANGED <<mainVars, portVars, lockVars, syncVars>>

NodeNext ==
    \/ ApiStart
    \/ ApiStop
    \/ ApiCheckHeight

SpecNode == NodeSpecInit /\ [][NodeNext]_vars

----------------------------------------------------------------------------
(* SpecPorts: BOOTNODE_TCP_PORT and build_all_nodes *)

Ports == 1 .. MaxPort

\* find_free_port: the ports the operating system may hand out.  The probe
\* socket is closed on return, so a port handed out before is free again.
find_free_port == Ports \ in_use

PortsInit ==
    /\ BOOTNODE_TCP_PORT = None
    /\ in_use \in {u \in SUBSET Ports : Cardinality(Ports \ u) >= 2}
    /\ size \in 2 .. MaxValidators
    /\ built = <<>>
    /\ MainIdle /\ NodeIdle /\ LockIdle /\ SyncIdle

\* line 59, run when the module is loaded.
LoadModule ==
    /\ BOOTNODE_TCP_PORT = None
    /\ BOOTNODE_TCP_PORT' \in find_free_port
    /\ UNCHANGED <<in_use, size, built>>
    /\ UNCHANGED <<mainVars, nodeVars, lockVars, syncVars>>

\* build_node for validator i: its network, monitoring and rpc ports, in the
\* order the calls of find_free_port are made.
build_node(i, tcp, monitoring, rpc) ==
    [validator_id |-> i,
     tcp_port |-> IF i = 1 THEN BOOTNODE_TCP_PORT ELSE tcp,
     monitoring_gateway_server_port |-> monitoring,
     rpc_port |-> rpc]

\* One append of build_all_nodes.
BuildNode ==
    /\ BOOTNODE_TCP_PORT # None
    /\ Len(built) < size
    /\ \E tcp \in find_free_port, monitoring \in find_free_port,
          rpc \in find_free_port :
         built' = Append(built, build_node(BuildOrder(size)[Len(built) + 1],
                                           tcp, monitoring, rpc))
    /\ UNCHANGED <<BOOTNODE_TCP_PORT, in_use, size>>
    /\ UNCHANGED <<mainVars, nodeVars, lockVars, syncVars>>

PortsNext ==
    \/ LoadModule
    \/ BuildNode

SpecPorts == PortsInit /\ [][PortsNext]_vars

----------------------------------------------------------------------------
(* SpecLock: simulations started on one db_dir *)

Sims == 1 .. MaxSims

LockInit ==
    /\ sims = [s \in Sims |-> [pc |-> "acquire_lock", lock_fd |-> "unset",
                               exit_status |-> None]]
    /\ holders = {}
    /\ MainIdle /\ NodeIdle /\ PortsIdle /\ SyncIdle

\* line 187 and acquire_lock, by simulation s.
SimAcquire(s) ==
    /\ sims[s].pc = "acquire_lock"
    /\ LET r == acquire_lock(holders, s) IN
       /\ holders' = r.flock
       /\ sims' = [sims EXCEPT ![s] =
                     [pc |-> IF r.waits THEN "blocked"
                             ELSE IF r.exit = None THEN "running"
                             ELSE "exited",
                      lock_fd |-> r.lock_fd,
                      exit_status |-> r.exit]]
    /\ UNCHANGED <<mainVars, nodeVars, portVars, syncVars>>

\* lines 199-200: after run_simulation returned.
SimRelease(s) ==
    /\ sims[s].pc = "running"
    /\ holders' = holders \ {s}
    /\ sims' = [sims EXCEPT ![s].pc = "released", ![s].lock_fd = "released"]
    /\ UNCHANGED <<mainVars, nodeVars, portVars, syncVars>>

\* lines 201-202: main() returns.
SimReturn(s) ==
    /\ sims[s].pc = "released"
    /\ sims' = [sims EXCEPT ![s].pc = "exited", ![s].exit_status = 0]
    /\ UNCHANGED holders
    /\ UNCHANGED <<mainVars, nodeVars, portVars, syncVars>>

\* An error or an interrupt between lines 187 and 199 ends the process; the
\* operating system drops the flock with the descriptor.
SimAbort(s) ==
    /\ sims[s].pc = "running"
    /\ holders' = holders \ {s}
    /\ sims' = [sims EXCEPT ![s].pc = "exited", ![s].exit_status = 1]
    /\ UNCHANGED <<mainVars, nodeVars, portVars, syncVars>>

LockNext ==
    \/ \E s \in Sims : SimAcquire(s)
    \/ \E s \in Sims : SimRelease(s)
    \/ \E s \in Sims : SimReturn(s)
    \/ \E s \in Sims : SimAbort(s)

SpecLock == LockInit /\ [][LockNext]_vars

----------------------------------------------------------------------------
(* SpecSync: scripts/p2p_syncing_test/main.py *)

SyncInit ==
    /\ sync_pc = "main"
    /\ argc \in {1, 2, 3}
    /\ response \in Responses
    /\ threads = <<>>
    /\ processes = <<>>
    /\ curl_output = PyNone
    /\ ti = 0
    /\ printed = "none"
    /\ sync_exc = "none"
    /\ sync_status = None
    /\ MainIdle /\ NodeIdle /\ PortsIdle /\ LockIdle

ScriptOnly == UNCHANGED <<mainVars, nodeVars, portVars, lockVars>>

\* lines 65-67: sys.exit(1) on a wrong number of arguments.
SyncArgs ==
    /\ sync_pc = "main"
    /\ IF argc # 2
       THEN /\ sync_pc' = "exited"
            /\ sync_status' = 1
            /\ sync_exc' = "SystemExit"
            /\ printed' = "Usage"
       ELSE /\ sync_pc' = "with"
            /\ UNCHANGED <<sync_status, sync_exc, printed>>
    /\ UNCHANGED <<argc, response, threads, processes, curl_output, ti>>
    /\ ScriptOnly

\* lines 38-44 and 81: the context manager makes the two threads, extends
\* `threads` by them, starts them and yields to the body of the with.
SyncEnter ==
    /\ sync_pc = "with"
    /\ threads' = threads \o <<"started", "started">>
    /\ sync_pc' = "sleep"
    /\ UNCHANGED <<argc, response, processes, curl_output, ti, printed,
                   sync_exc, sync_status>>
    /\ ScriptOnly

\* lines 19-21, the target of a thread: Popen, which may fail and end the
\* thread with nothing appended, then processes.append.  A started thread
\* runs whenever it is scheduled; the interpreter joins it before it exits.
StartNodeThread ==
    /\ sync_pc # "exited"
    /\ \E t \in 1 .. Len(threads) :
         /\ threads[t] = "started"
         /\ threads' = [threads EXCEPT ![t] = "finished"]
         /\ \E spawned \in BOOLEAN :
              processes' = IF spawned
                           THEN Append(processes, "running")
                           ELSE processes
    /\ UNCHANGED <<sync_pc, argc, response, curl_output, ti, printed,
                   sync_exc, sync_status>>
    /\ ScriptOnly

\* line 82.
SyncSleep ==
    /\ sync_pc = "sleep"
    /\ sync_pc' = "fetch"
    /\ UNCHANGED <<argc, response, threads, processes, curl_output, ti,
                   printed, sync_exc, sync_status>>
    /\ ScriptOnly

\* line 85: an exception of the call is caught at line 97 and printed, and
\* the finally clause of line 99 follows.
SyncFetch ==
    /\ sync_pc = "fetch"
    /\ LET r == run_curl_and_extract_state_marker(response) IN
       IF r.raised # "none"
       THEN /\ printed' = "An error occurred while running the script"
            /\ sync_pc' = "stop_threads"
            /\ ti' = 1
            /\ UNCHANGED curl_output
       ELSE /\ curl_output' = r.value
            /\ sync_pc' = "check"
            /\ UNCHANGED <<printed, ti>>
    /\ UNCHANGED <<argc, response, threads, processes, sync_exc, sync_status>>
    /\ ScriptOnly

\* lines 86-98: every Exception raised in the try block, the AssertionError
\* of lines 89-94 included, is caught at line 97 and printed.
SyncCheck ==
    /\ sync_pc = "check"
    /\ LET r == CheckMarker(curl_output) IN
       printed' = IF r.raised # "none"
                  THEN "An error occurred while running the script"
                  ELSE r.printed
    /\ sync_pc' = "stop_threads"
    /\ ti' = 1
    /\ UNCHANGED <<argc, response, threads, processes, curl_output, sync_exc,
                   sync_status>>
    /\ ScriptOnly

\* lines 99-102: one iteration of the loop over `threads`; an error of
\* _stop() leaves the with body, replacing the exception in flight.
SyncStopThread ==
    /\ sync_pc = "stop_threads"
    /\ ti <= Len(threads)
    /\ \E has_stop \in BOOLEAN :
         LET e == ThreadStop(threads[ti], has_stop) IN
         IF e # "none"
         THEN /\ sync_exc' = e
              /\ sync_pc' = "cleanup"
              /\ ti' = 1
         ELSE /\ ti' = ti + 1
              /\ UNCHANGED <<sync_pc, sync_exc>>
    /\ UNCHANGED <<argc, response, threads, processes, curl_output, printed,
                   sync_status>>
    /\ ScriptOnly

\* The end of the finally clause of line 99 and of the with body.
SyncStopThreadsEnd ==
    /\ sync_pc = "stop_threads"
    /\ ti > Len(threads)
    /\ sync_pc' = "cleanup"
    /\ ti' = 1
    /\ UNCHANGED <<argc, response, threads, processes, curl_output, printed,
                   sync_exc, sync_status>>
    /\ ScriptOnly

\* lines 48-52: one iteration of the context manager's loop over
\* `processes`; an error of os.getpgid/os.killpg leaves the loop.
SyncKill ==
    /\ sync_pc = "cleanup"
    /\ ti <= Len(processes)
    /\ \E os_ok \in BOOLEAN :
         IF os_ok
         THEN /\ processes' = [processes EXCEPT ![ti] = "terminated"]
              /\ ti' = ti + 1
              /\ UNCHANGED <<sync_pc, sync_exc>>
         ELSE /\ sync_exc' = "OSError"
              /\ sync_pc' = "shutdown"
              /\ ti' = 0
              /\ UNCHANGED processes
    /\ UNCHANGED <<argc, response, threads, curl_output, printed, sync_status>>
    /\ ScriptOnly

\* The end of the context manager: the exception in flight, if any, goes on
\* to the caller of main().
SyncCleanupEnd ==
    /\ sync_pc = "cleanup"
    /\ ti > Len(processes)
    /\ sync_pc' = "shutdown"
    /\ ti' = 0
    /\ UNCHANGED <<argc, response, threads, processes, curl_output, printed,
                   sync_exc, sync_status>>
    /\ ScriptOnly

\* lines 104-105: main() has returned or raised; the interpreter waits for
\* the threads and exits, non-zero on an uncaught exception.
SyncExit ==
    /\ sync_pc = "shutdown"
    /\ \A t \in 1 .. Len(threads) : threads[t] # "started"
    /\ sync_pc' = "exited"
    /\ sync_status' = CASE sync_exc = "none" -> 0
                         [] sync_exc = "KeyboardInterrupt" -> 130
                         [] OTHER -> 1
    /\ UNCHANGED <<argc, response, threads, processes, curl_output, ti,
                   printed, sync_exc>>
    /\ ScriptOnly

\* The operator's SIGINT: KeyboardInterrupt is no Exception, line 97 does
\* not catch it.  In the sleep of line 82 it goes straight to the context
\* manager, in the try block through the finally clause of line 99, and in
\* a finally loop it ends that loop.
SyncInterrupt ==
    /\ sync_pc \in {"sleep", "fetch", "check", "stop_threads", "cleanup"}
    /\ sync_exc' = "KeyboardInterrupt"
    /\ sync_pc' = CASE sync_pc \in {"fetch", "check"} -> "stop_threads"
                     [] sync_pc \in {"sleep", "stop_threads"} -> "cleanup"
                     [] OTHER -> "shutdown"
    /\ ti' = IF sync_pc = "cleanup" THEN 0 ELSE 1
    /\ UNCHANGED <<argc, response, threads, processes, curl_output, printed,
                   sync_status>>
    /\ ScriptOnly

SyncNext ==
    \/ SyncArgs
    \/ SyncEnter
    \/ StartNodeThread
    \/ SyncSleep
    \/ SyncFetch
    \/ SyncCheck
    \/ SyncStopThread
    \/ SyncStopThreadsEnd
    \/ SyncKill
    \/ SyncCleanupEnd
    \/ SyncExit
    \/ SyncInterrupt

SpecSync == SyncInit /\ [][SyncNext]_vars

----------------------------------------------------------------------------
(* Properties *)

\* C1: whenever main() has ended after acquire_lock succeeded, on whatever
\* path, the release step of lines 199-200 (LOCK_UN and close) has been run.
C1_LockReleasedOnEveryExit ==
    (pc = "exited" /\ lock_fd # "unset") => lock_fd = "released"

\* The largest integer among the first k readings of the feed, None when
\* there is none.
RECURSIVE MaxFed(_)
MaxFed(k) ==
    IF k = 0 THEN None
    ELSE IF feed[k] > MaxFed(k - 1) THEN feed[k] ELSE MaxFed(k - 1)

\* C2: a poll that reports an integer smaller than the largest integer the
\* node reported before raises the monotonicity error and is not recorded as
\* the node's height, also when None readings lie between the two.
C2_DecreaseAlwaysRaises ==
    \A k \in 1 .. fed :
        (feed[k] # None /\ feed[k] < MaxFed(k - 1)) =>
            /\ raisedAt = k
            /\ obj.height # feed[k]

\* C3: fed integers only, check_height raises at reading k exactly when
\* reading k is smaller than reading k-1 and no earlier reading raised; equal
\* and larger readings never raise.
AllIntegers(f) == \A k \in 1 .. Len(f) : f[k] # None

C3_RaisesIffDecrease ==
    AllIntegers(feed) =>
        \A k \in 1 .. fed :
            (raisedAt = k) <=>
                /\ k > 1
                /\ feed[k] < feed[k - 1]
                /\ raisedAt \notin 1 .. (k - 1)

\* C3's case: of the readings 0, 1, 0 the third has raised.
C3_Witness == feed = <<0, 1, 0>> /\ fed = 3 /\ raisedAt = 3

\* C4: at a poll of a tick taken at curr_time, the node is put among the
\* stagnated ones exactly when its reading is an integer equal to the height
\* recorded before the poll and curr_time - timestamp >= stagnation_threshold.
C4_StagnatedIffAtLeastTimeout ==
    [][(pc = "poll" /\ pc' = "poll" /\ idx' = idx + 1) =>
         ((nodes[idx].validator_id \in stagnated_nodes') <=>
            /\ nodes'[idx].height # None
            /\ nodes'[idx].height = nodes[idx].height
            /\ curr_time - nodes[idx].timestamp >= cfg.stagnation_threshold)
      ]_vars

\* C5: the tick's verdict is True exactly when the duration is set and the
\* elapsed time has reached it, or some node was judged stagnated in the
\* tick; and after a True verdict no further tick is made: the nodes are
\* stopped next.
C5_VerdictIffDurationReachedOrStagnated ==
    [][/\ (pc \in {"monitor", "poll"} /\ pc' = "check_exit") =>
            (should_exit' <=>
               \/ cfg.duration # None /\ now - start_time >= cfg.duration
               \/ pc = "poll" /\ stagnated_nodes # {})
       /\ (pc = "check_exit" /\ should_exit /\ pc' # pc) => pc' = "finally"
      ]_vars

\* C6: with a duration set and no node stagnated in the tick, the loop stops
\* at the tick exactly when the elapsed time is at least the duration: never
\* before, and at the first tick at or after it.
C6_StopsAtFirstTickReachingDuration ==
    [][(/\ cfg.duration # None
        /\ pc \in {"monitor", "poll"} /\ pc' = "check_exit"
        /\ ~(pc = "poll" /\ stagnated_nodes # {})) =>
         (should_exit' <=> now - start_time >= cfg.duration)
      ]_vars

PortSlots == (1 .. Len(built)) \X {"tcp", "monitoring", "rpc"}

PortOf(slot) ==
    CASE slot[2] = "tcp" -> built[slot[1]].tcp_port
      [] slot[2] = "monitoring" ->
            built[slot[1]].monitoring_gateway_server_port
      [] slot[2] = "rpc" -> built[slot[1]].rpc_port

C8_PortsPairwiseDistinct ==
    \A a, b \in PortSlots : a # b => PortOf(a) # PortOf(b)

\* C9: at most one of the simulations on a db_dir is past acquire_lock with
\* the lock at any time; none waits inside acquire_lock; and an acquire made
\* while another simulation holds the lock ends the process at once with
\* status 1, the lock not held.
Holding(s) == sims[s].pc = "running" /\ sims[s].lock_fd = "locked"

C9_LockExclusiveAndFailFast ==
    /\ [](/\ Cardinality({s \in Sims : Holding(s)}) <= 1
          /\ \A s \in Sims : sims[s].pc # "blocked")
    /\ [][\A s \in Sims :
            (sims[s].pc = "acquire_lock" /\ sims'[s].pc # "acquire_lock"
             /\ \E o \in Sims \ {s} : Holding(o)) =>
                /\ sims'[s].pc = "exited"
                /\ sims'[s].exit_status = 1
                /\ sims'[s].lock_fd # "locked"
                /\ holders' = holders
         ]_vars

\* C9's case: simulation 1 holds the lock and simulation 2's acquire failed.
C9_Witness ==
    /\ Holding(1)
    /\ sims[2].pc = "exited"
    /\ sims[2].exit_status = 1
    /\ sims[2].lock_fd = "unset"

\* C10: stop() on a node never started or already stopped sends no signal,
\* raises nothing and changes nothing; the first stop() of a running node
\* clears the process handle.
C10_StopIdempotent ==
    [][call' = "stop" =>
         /\ obj.process \in {"None", "reaped"} =>
               (obj' = obj /\ sent' = 0 /\ ~stop_raised')
         /\ (obj.process = "running" /\ ~stop_raised') =>
               obj'.process = "None"
      ]_vars

\* A node of the run has been started, and no child process is left running.
SomeNodeStarted == \E k \in 1 .. Len(nodes) : nodes[k].process # "None"
NoChildRunning == \A k \in 1 .. Len(nodes) : nodes[k].process # "running"

\* C11: a run that the operator's interrupt reached after its first node was
\* started (in the start loop, in the sleep, in a poll, or in the teardown,
\* where it may be a second interrupt) ends with every started node stopped
\* and the lock released.
C11_InterruptEndsStoppedAndReleased ==
    (pc = "exited" /\ interrupted /\ SomeNodeStarted) =>
        (NoChildRunning /\ lock_fd = "released")

\* C12: when start() fails for a node, the harness exits with every node
\* started before it stopped and the lock released.
C12_SpawnFailureStopsEarlierNodes ==
    (pc = "exited" /\ exc = "OSError: Popen") =>
        (NoChildRunning /\ lock_fd = "released")

\* C13: the process ends with status 0 exactly when main() returns, which it
\* does when the loop was left by a stop verdict (stagnation, duration) or by
\* an interrupt caught in the try block and the teardown went through; it
\* ends non-zero on a failed validation, on a failed lock acquisition and on
\* a failed monotonicity assertion; from the moment a monotonicity violation
\* is in flight the run can only end non-zero.
C13_ExitStatus ==
    /\ [](pc = "exited" =>
            /\ exit_status = 0 <=> exc = "none"
            /\ exc \in {"AssertionError", "SystemExit"} => exit_status # 0
            /\ (~ArgsOk \/ (lock_fd = "unset" /\ exc = "SystemExit")) =>
                  exit_status # 0)
    /\ [][/\ (pc # "exited" /\ pc' = "exited" /\ exit_status' = 0) =>
               (pc = "release" /\ (should_exit \/ interrupted))
          /\ (pc = "finally" /\ exc = "none" /\ pc' \notin {"finally", "exited"})
                => pc' = "release"
          /\ (pc = "release" /\ ~interrupted') =>
                (pc' = "exited" /\ exit_status' = 0)
          /\ (pc = "poll" /\ exc' = "AssertionError") => pc' = "finally"
          /\ (pc = "finally" /\ exc = "AssertionError") =>
                /\ pc' \in {"finally", "exited"}
                /\ pc' = "finally" => exc' = "AssertionError"
                /\ pc' = "exited" => exit_status' # 0
         ]_vars

\* C13's case: a monotonicity violation was detected while nodes ran, and the
\* run has ended with a non-zero status.
C13_Witness ==
    /\ pc = "exited"
    /\ exc = "AssertionError"
    /\ SomeNodeStarted
    /\ exit_status = 1

\* A node that has never recorded anything: all its polls returned None.
NeverReported(node) == node.height = None /\ node.timestamp = None

\* C14: a node all of whose polls so far returned None is never among the
\* stagnated nodes, its poll never raises, and a tick on which no node has
\* reported yet ends with the verdict "go on", whatever time has passed.
C14_NeverReportedNeverStagnated ==
    /\ [](\A k \in 1 .. Len(nodes) :
            NeverReported(nodes[k]) =>
                nodes[k].validator_id \notin stagnated_nodes)
    /\ [][/\ (pc = "poll" /\ idx <= Len(nodes) /\ NeverReported(nodes[idx]))
                => exc' # "AssertionError"
          /\ (pc = "poll" /\ pc' = "check_exit"
              /\ \A k \in 1 .. Len(nodes) : NeverReported(nodes[k]))
                => (~should_exit' /\ nodes' = nodes)
         ]_vars

\* C14's case: no node has reported a height for longer than the stagnation
\* timeout, and the tick has ended without a stop verdict.
C14_Witness ==
    /\ pc = "check_exit"
    /\ ~should_exit
    /\ nodes # <<>>
    /\ \A k \in 1 .. Len(nodes) : NeverReported(nodes[k])
    /\ (now - start_time) > cfg.stagnation_threshold

\* C15: a run that finds the lock on the supplied db_dir held by another
\* simulation ends at once, having spawned no process and having created
\* nothing on disk, neither a directory nor a file.
C15_LockHeldLeavesNoTrace ==
    (pc = "exited" /\ exc = "SystemExit") =>
        (cfg.db_given /\ nodes = <<>> /\ exit_status = 1 /\ disk = {})

\* The arguments the claim C16 names: fewer than two validators, or a
\* supplied db_dir that does not exist or whose sub-directories are not
\* exactly data0 .. data{N-1}.
InvalidArgs ==
    \/ cfg.num_validators < 2
    \/ /\ cfg.db_given
       /\ \/ ~cfg.db_exists
          \/ cfg.db_subdirs # 0 .. (cfg.num_validators - 1)

C17_StopAttemptedOnEveryNode ==
    [][(pc = "finally" /\ idx <= Len(nodes) /\ pc' = "exited"
        /\ exc' = "OSError: killpg") => idx = Len(nodes)]_vars

\* The number of nodes polled so far in the current call of
\* monitor_simulation, and the step on which the call returns its verdict.
PolledThisTick == IF pc = "poll" THEN idx - 1 ELSE 0
VerdictStep == pc \in {"monitor", "poll"} /\ pc' = "check_exit"

\* C18: on every tick on which monitor_simulation returns a
\* verdict, every node has been polled within that tick before the verdict,
\* the ticks stopped by the duration limit included.
C18_AllPolledBeforeEveryVerdict ==
    [][VerdictStep => PolledThisTick = Len(nodes)]_vars

\* The step is call number fed + 1 of check_height; it records its reading
\* with the time of the call; the reading is an integer below the recorded
\* integer.
CheckHeightStep == fed' = fed + 1
Recorded == obj'.height = feed[fed + 1] /\ obj'.timestamp = fed + 1
Decrease ==
    obj.height # None /\ feed[fed + 1] # None /\ feed[fed + 1] < obj.height
ProgressUnchanged ==
    obj'.height = obj.height /\ obj'.timestamp = obj.timestamp

\* C19: check_height records (reading, now) if and only if the reading
\* differs from the recorded value; on an equal reading value and time are
\* left as they are; no other operation changes them.
C19_RecordsIffDiffers ==
    [][/\ CheckHeightStep =>
            /\ Recorded <=> feed[fed + 1] # obj.height
            /\ feed[fed + 1] = obj.height => ProgressUnchanged
       /\ ~CheckHeightStep => ProgressUnchanged
      ]_vars

\* C19, amended: check_height records (reading, now) if and only if the
\* reading differs from the recorded value and is not an integer below a
\* recorded integer; in that last case it raises; whenever it does not
\* record, value and time are left as they are; no other operation changes
\* them.
C19_RecordsIffDiffersAndNotDecrease ==
    [][/\ CheckHeightStep =>
            /\ Recorded <=> (feed[fed + 1] # obj.height /\ ~Decrease)
            /\ Decrease <=> raisedAt' = fed + 1
            /\ ~Recorded => ProgressUnchanged
       /\ ~CheckHeightStep => ProgressUnchanged
      ]_vars

\* C19's case: a reading below the recorded height has been refused, the
\* recorded pair left as it was.
C19_Witness ==
    /\ call = "check_height"
    /\ fed >= 2
    /\ raisedAt = fed
    /\ obj.height > feed[fed]
    /\ obj.timestamp < fed

\* C20: whenever a node process started by the simulation is running, the
\* simulation holds the lock of its directory, so that no other simulation
\* holds it.
C20_ChildrenRunOnlyUnderLock ==
    (\E k \in 1 .. Len(nodes) : nodes[k].process = "running") =>
        (lock_fd = "locked" /\ flock = {"self"})

\* A poll of node idx that returned None: check_height did not raise and the
\* height it returns is None.
PollReturnedNone ==
    /\ pc = "poll" /\ idx <= Len(nodes)
    /\ pc' = "poll" /\ idx' = idx + 1
    /\ nodes'[idx].height = None

\* C21: the poll that finds a node unreachable after it had reported an
\* integer replaces its pair by (None, now); a node whose poll returns None
\* is not put among the stagnated nodes on that tick, however long ago its
\* pair was recorded; a tick on which every node is either unreachable or has
\* changed on this very tick ends with the verdict "go on", and with no
\* duration limit no tick ends without the polls.
C21_UnreachableNeverStagnated ==
    [][/\ PollReturnedNone =>
            /\ nodes[idx].height # None =>
                  nodes'[idx].timestamp = now
            /\ nodes[idx].height = None => nodes'[idx] = nodes[idx]
            /\ nodes'[idx].validator_id \notin stagnated_nodes'
       /\ (pc = "poll" /\ pc' = "check_exit"
           /\ \A k \in 1 .. Len(nodes) :
                 nodes[k].height = None \/ nodes[k].timestamp = now)
             => ~should_exit'
       /\ (cfg.duration = None /\ pc = "monitor") => pc' # "check_exit"
      ]_vars

\* C21's case: with no duration limit, a node that had reported a height has
\* been unreachable for longer than the stagnation timeout, and the tick has
\* ended without a stop verdict.
C21_Witness ==
    /\ pc = "check_exit"
    /\ ~should_exit
    /\ cfg.duration = None
    /\ \E k \in 1 .. Len(nodes) :
         /\ nodes[k].height = None
         /\ nodes[k].timestamp # None
         /\ (now - nodes[k].timestamp) > cfg.stagnation_threshold

\* The metrics were fetched and main() went through its check of them.
MetricsChecked ==
    /\ sync_pc = "exited"
    /\ response.kind = "text"
    /\ response.marker # NotAnInt
    /\ printed \notin {"none", "Usage"}

\* C22: when the metrics were fetched and the state marker is absent or
\* below 10, the script ends with the AssertionError uncaught and a non-zero
\* status; and whenever the script has ended, every node process it spawned
\* has been signalled and waited for.
C22_LowMarkerFailsAndNodesStopped ==
    /\ (MetricsChecked /\ (response.marker = None \/ response.marker < 10)) =>
          (sync_status # 0 /\ sync_exc = "AssertionError")
    /\ sync_pc = "exited" =>
          \A k \in 1 .. Len(processes) : processes[k] = "terminated"

====
